---- MODULE Spec2Model ----
(***************************************************************************)
(* Model of src/s.py: the Streamlit energy dashboard.  One run of main()  *)
(* is one "tick"; st.session_state.metrics_history is the only state that *)
(* survives from one run to the next.                                      *)
(*                                                                         *)
(* Numbers.  Python floats are modelled by exact fixed-point integers:     *)
(*   cpu_usage, disk_percent, memory_percent : tenths of a percent         *)
(*   cpu_freq                                : MHz                         *)
(*   memory_used                             : hundredths of a GB          *)
(*   unrounded watts                         : microwatts (1e-6 W)         *)
(*   round(x, 1) watts                       : tenths of a watt            *)
(*   unrounded hourly_co2                    : hundredths of a gram        *)
(*   hourly / daily / annual                 : 0.1 g / 0.01 kg / 0.001 t   *)
(* round() is Python's: to the nearest multiple, ties to the even one.     *)
(* A float that prints as a decimal tie (x.x5) is seldom one in binary, so *)
(* there the float's last bit decides the direction; the readings          *)
(* enumerated below stay clear of such ties, apart from those exact in     *)
(* binary.                                                                 *)
(* Optional values (None) are sequences: None == <<>>, a value v is <<v>>. *)
(***************************************************************************)
EXTENDS Integers, Sequences, FiniteSets

VARIABLES
    metrics_history,   \* st.session_state.metrics_history: None (key absent) or <<rows>>
    pc,                \* position of the run inside main()
    host,              \* what psutil meets on the host during this run (None between runs)
    metrics,           \* main's local `metrics`
    power,             \* main's local `power`
    power_w,           \* argument handed to calculate_emissions
    emissions,         \* main's local `emissions`
    trace,             \* what the run has done so far, in order
    clock,             \* number of completed runs; datetime.now() of the run
    unusual,           \* number of runs so far that met a host other than BaselineHost
    appended,          \* history of the history: timestamps of every row ever appended
    history_at_start,  \* metrics_history as the current (or last) run found it
    prev_failed        \* the last completed run had no metrics

vars == <<metrics_history, pc, host, metrics, power, power_w, emissions, trace,
          clock, unusual, appended, history_at_start, prev_failed>>

None == <<>>
Some(v) == <<v>>

(***************************************************************************)
(* Program constants.                                                      *)
(***************************************************************************)
GRID_EMISSION_FACTOR == 400
PUE_CLOUD_TENTHS == 12
FALLBACK_FREQ_MHZ == 2500
CPU_WATTS_PER_GHZ == 15
MEM_MILLIWATTS_PER_GB == 300
DISK_ACTIVE_WATTS == 5
DISK_IDLE_WATTS == 2
DISK_ACTIVE_ABOVE == 500
HISTORY_ROWS == 60
ANOMALY_MIN_ROWS == 10
ANOMALY_FACTOR_TENTHS == 13
TREND_MIN_ROWS == 1

(***************************************************************************)
(* Bounds of the model.                                                    *)
(***************************************************************************)
MaxRuns == 12
MaxUnusual == 2
MaxLongRuns == 62
MaxLongUnusual == 1
MaxPowerTenths == 300

MICRO == 1000 * 1000

\* round(num/den, 0) for num >= 0, den > 0: nearest integer, ties to even.
RoundHalfEven(num, den) ==
    LET q == num \div den
        r == num % den
    IN  IF 2 * r < den THEN q
        ELSE IF 2 * r > den THEN q + 1
        ELSE IF q % 2 = 0 THEN q ELSE q + 1

\* round(x, 1) of x microwatts, in tenths of a watt.
Round1(uw) == RoundHalfEven(uw, MICRO \div 10)

Truthy(opt) == opt # None /\ opt[1] # 0

(***************************************************************************)
(* SystemMonitor.get_system_metrics.  A host condition says what psutil    *)
(* does on this run:                                                       *)
(*   os_error  some psutil call raises;                                    *)
(*   freq_api  "absent" when psutil has no cpu_freq attribute;             *)
(*   cpu_freq  what psutil.cpu_freq() returns where it exists: None where  *)
(*             the frequency cannot be determined, else <<MHz>>.           *)
(* Reading .current of a None return raises AttributeError inside the try. *)
(***************************************************************************)
CollectionRaises(h) ==
    h.os_error \/ (h.freq_api = "present" /\ h.cpu_freq = None)

snapshot(h, now) ==
    Some([timestamp      |-> now,
          cpu_usage      |-> h.cpu_usage,
          cpu_freq       |-> IF h.freq_api = "present" THEN h.cpu_freq ELSE None,
          memory_used    |-> h.memory_used,
          memory_percent |-> h.memory_percent,
          disk_percent   |-> h.disk_percent])

\* the except branch left out: a snapshot comes back whatever psutil did
get_system_metrics_unguarded(h, now) == snapshot(h, now)

get_system_metrics(h, now) ==
    IF CollectionRaises(h) THEN None ELSE snapshot(h, now)

(***************************************************************************)
(* SystemMonitor.calculate_power, m a snapshot.  Unrounded terms are in    *)
(* microwatts: (cpu_usage/100) * GHz * 15 = tenths * MHz * 15 microwatts.  *)
(***************************************************************************)
cpu_power(m) ==
    m.cpu_usage * (IF Truthy(m.cpu_freq) THEN m.cpu_freq[1] ELSE FALLBACK_FREQ_MHZ)
                * CPU_WATTS_PER_GHZ

mem_power(m) == m.memory_used * MEM_MILLIWATTS_PER_GB * 10

disk_power_ge(m) ==
    (IF m.disk_percent >= DISK_ACTIVE_ABOVE THEN DISK_ACTIVE_WATTS ELSE DISK_IDLE_WATTS) * MICRO

disk_power(m) ==
    (IF m.disk_percent > DISK_ACTIVE_ABOVE THEN DISK_ACTIVE_WATTS ELSE DISK_IDLE_WATTS) * MICRO

total_it_power_no_disk(m) == cpu_power(m) + mem_power(m)

total_it_power(m) == cpu_power(m) + mem_power(m) + disk_power(m)

calculate_power(mopt) ==
    IF mopt = None
    THEN None
    ELSE LET m == mopt[1]
         IN  Some([cpu            |-> Round1(cpu_power(m)),
                   memory         |-> Round1(mem_power(m)),
                   disk           |-> Round1(disk_power(m)),
                   total_it       |-> Round1(total_it_power(m)),
                   total_facility |-> RoundHalfEven(total_it_power(m) * PUE_CLOUD_TENTHS,
                                                    10 * (MICRO \div 10)),
                   pue            |-> PUE_CLOUD_TENTHS])

(***************************************************************************)
(* SystemMonitor.calculate_emissions, w None or <<tenths of a watt>>.      *)
(* hourly_co2 = (power_w / 1000) * 400 g, here in hundredths of a gram.    *)
(***************************************************************************)
hourly_co2(tenths) == (tenths * GRID_EMISSION_FACTOR) \div 100

annual_co2_360(h) == RoundHalfEven(h * 24 * 360, 100000)

annual_co2(h) == RoundHalfEven(h * 24 * 365, 100000)

calculate_emissions(w) ==
    IF ~Truthy(w)
    THEN None
    ELSE LET h == hourly_co2(w[1])
         IN  Some([hourly |-> RoundHalfEven(h, 10),
                   daily  |-> RoundHalfEven(h * 24, 1000),
                   annual |-> annual_co2(h)])

(***************************************************************************)
(* The history kept in st.session_state, and the anomaly test of main.     *)
(***************************************************************************)
new_row(m, p) ==
    [timestamp      |-> m.timestamp,
     cpu_usage      |-> m.cpu_usage,
     memory_percent |-> m.memory_percent,
     disk_percent   |-> m.disk_percent,
     cpu_power      |-> p.cpu,
     mem_power      |-> p.memory,
     disk_power     |-> p.disk,
     total_power    |-> p.total_facility]

\* DataFrame.head(n): the first n rows.
head(rows, n) == IF Len(rows) <= n THEN rows ELSE SubSeq(rows, 1, n)

\* DataFrame.tail(n): the last n rows, in order.
tail(rows, n) == IF Len(rows) <= n THEN rows ELSE SubSeq(rows, Len(rows) - n + 1, Len(rows))

append_row_keep_first(rows, row) == head(Append(rows, row), HISTORY_ROWS)

\* pd.concat([history, DataFrame([row])]).tail(60)
append_row(rows, row) == tail(Append(rows, row), HISTORY_ROWS)

RECURSIVE sum_total_power(_)
sum_total_power(rows) ==
    IF rows = <<>> THEN 0 ELSE Head(rows).total_power + sum_total_power(Tail(rows))

\* current_power > mean * 1.3, with mean = sum / len: cross-multiplied.
above_threshold(rows, current) ==
    current * 10 * Len(rows) > sum_total_power(rows) * ANOMALY_FACTOR_TENTHS

anomaly_any_length(rows, current) == above_threshold(rows, current)

anomaly_above_mean(rows, current) ==
    Len(rows) > ANOMALY_MIN_ROWS /\ current * Len(rows) > sum_total_power(rows)

anomaly(rows, current) ==
    Len(rows) > ANOMALY_MIN_ROWS /\ above_threshold(rows, current)

(***************************************************************************)
(* Hosts met by the runs of main.  BaselineHost is the ordinary reading;   *)
(* at most MaxUnusual runs of a behaviour meet one of the others.          *)
(***************************************************************************)
Host(err, api, freq, usage, memused, mempct, diskpct) ==
    [os_error |-> err, freq_api |-> api, cpu_freq |-> freq, cpu_usage |-> usage,
     memory_used |-> memused, memory_percent |-> mempct, disk_percent |-> diskpct]

BaselineHost == Host(FALSE, "present", Some(2000), 123, 410, 256, 450)

UnusualHosts ==
    { Host(TRUE,  "present", Some(2000), 123,  410, 256, 450),   \* an OS call raises
      Host(FALSE, "present", None,       123,  410, 256, 450),   \* cpu_freq() returns None
      Host(FALSE, "absent",  None,       1000, 410, 256, 450),   \* no cpu_freq in psutil; busy
      Host(FALSE, "present", Some(2000), 0,    0,   0,   450),   \* idle
      Host(FALSE, "present", Some(2000), 196,  410, 256, 450) }  \* somewhat busier

Hosts == {BaselineHost} \cup UnusualHosts

\* the hosts of the long behaviours, which fill the history past its 60 rows
LongHosts ==
    { BaselineHost,
      Host(TRUE,  "present", Some(2000), 123,  410, 256, 450) }

(***************************************************************************)
(* One run of main(), step by step.                                        *)
(***************************************************************************)
Init ==
    /\ metrics_history = None
    /\ pc = "start"
    /\ host = None
    /\ metrics = None
    /\ power = None
    /\ power_w = None
    /\ emissions = None
    /\ trace = <<>>
    /\ clock = 0
    /\ unusual = 0
    /\ appended = <<>>
    /\ history_at_start = None
    /\ prev_failed = FALSE

\* lines 163-168: create the history on the first run of a session.
StartRun(maxRuns) ==
    /\ pc = "start"
    /\ clock < maxRuns
    /\ metrics_history' = IF metrics_history = None THEN Some(<<>>) ELSE metrics_history
    /\ history_at_start' = metrics_history'
    /\ pc' = "collect"
    /\ UNCHANGED <<host, metrics, power, power_w, emissions, trace, clock, unusual,
                   appended, prev_failed>>

\* line 171 and lines 59-82: the except branch reports through st.error.
Collect(hosts, maxUnusual) ==
    /\ pc = "collect"
    /\ \E h \in hosts :
          /\ h = BaselineHost \/ unusual < maxUnusual
          /\ unusual' = IF h = BaselineHost THEN unusual ELSE unusual + 1
          /\ host' = Some(h)
          /\ metrics' = get_system_metrics(h, clock)
          /\ trace' = IF get_system_metrics(h, clock) = None
                      THEN trace \o <<"collect", "metrics_error">>
                      ELSE Append(trace, "collect")
    /\ pc' = "col1"
    /\ UNCHANGED <<metrics_history, power, power_w, emissions, clock, appended,
                   history_at_start, prev_failed>>

InitSessionState == StartRun(MaxRuns)

GetSystemMetrics == Collect(Hosts, MaxUnusual)

LongInitSessionState == StartRun(MaxLongRuns)

LongGetSystemMetrics == Collect(LongHosts, MaxLongUnusual)

\* lines 176-202: gauges and network chart of the snapshot.
RenderSystemMetrics ==
    /\ pc = "col1"
    /\ trace' = IF metrics # None THEN Append(trace, "gauges") ELSE trace
    /\ pc' = "col2"
    /\ UNCHANGED <<metrics_history, host, metrics, power, power_w, emissions, clock,
                   unusual, appended, history_at_start, prev_failed>>

\* lines 207-208
CalculatePower ==
    /\ pc = "col2"
    /\ IF metrics # None
       THEN /\ power' = calculate_power(metrics)
            /\ trace' = Append(trace, "power")
            /\ pc' = "emissions"
       ELSE /\ pc' = "notes"
            /\ UNCHANGED <<power, trace>>
    /\ UNCHANGED <<metrics_history, host, metrics, power_w, emissions, clock, unusual,
                   appended, history_at_start, prev_failed>>

\* the same step with the history update left out
CalculateEmissionsThenCard ==
    /\ pc = "emissions"
    /\ power_w' = IF power # None THEN Some(power[1].total_facility) ELSE None
    /\ emissions' = calculate_emissions(power_w')
    /\ trace' = Append(trace, "emissions")
    /\ pc' = "power_card"
    /\ UNCHANGED <<metrics_history, host, metrics, power, clock, unusual, appended,
                   history_at_start, prev_failed>>

\* line 209
CalculateEmissions ==
    /\ pc = "emissions"
    /\ power_w' = IF power # None THEN Some(power[1].total_facility) ELSE None
    /\ emissions' = calculate_emissions(power_w')
    /\ trace' = Append(trace, "emissions")
    /\ pc' = "history"
    /\ UNCHANGED <<metrics_history, host, metrics, power, clock, unusual, appended,
                   history_at_start, prev_failed>>

\* lines 211-227
UpdateHistory ==
    /\ pc = "history"
    /\ IF power # None
       THEN /\ metrics_history' =
                   Some(append_row(metrics_history[1], new_row(metrics[1], power[1])))
            /\ appended' = Append(appended, metrics[1].timestamp)
            /\ trace' = Append(trace, "append")
            /\ pc' = "power_card"
       ELSE /\ pc' = "notes"
            /\ UNCHANGED <<metrics_history, appended, trace>>
    /\ UNCHANGED <<host, metrics, power, power_w, emissions, clock, unusual,
                   history_at_start, prev_failed>>

\* lines 229-243
RenderPowerCard ==
    /\ pc = "power_card"
    /\ trace' = Append(trace, "power_card")
    /\ pc' = "emissions_card"
    /\ UNCHANGED <<metrics_history, host, metrics, power, power_w, emissions, clock,
                   unusual, appended, history_at_start, prev_failed>>

\* lines 245-257
RenderEmissionsCard ==
    /\ pc = "emissions_card"
    /\ trace' = IF emissions # None THEN Append(trace, "emissions_card") ELSE trace
    /\ pc' = "anomaly"
    /\ UNCHANGED <<metrics_history, host, metrics, power, power_w, emissions, clock,
                   unusual, appended, history_at_start, prev_failed>>

\* lines 259-272
AnomalyDetection ==
    /\ pc = "anomaly"
    /\ trace' = IF anomaly(metrics_history[1], power[1].total_facility)
                THEN trace \o <<"anomaly_check", "anomaly_alert">>
                ELSE Append(trace, "anomaly_check")
    /\ pc' = "trend"
    /\ UNCHANGED <<metrics_history, host, metrics, power, power_w, emissions, clock,
                   unusual, appended, history_at_start, prev_failed>>

\* lines 274-283
PowerTrend ==
    /\ pc = "trend"
    /\ trace' = IF Len(metrics_history[1]) > TREND_MIN_ROWS
                THEN Append(trace, "trend") ELSE trace
    /\ pc' = "notes"
    /\ UNCHANGED <<metrics_history, host, metrics, power, power_w, emissions, clock,
                   unusual, appended, history_at_start, prev_failed>>

\* lines 285-295: the run ends; its locals are gone, the session state stays.
EndRun ==
    /\ pc = "notes"
    /\ pc' = "start"
    /\ clock' = clock + 1
    /\ prev_failed' = (metrics = None)
    /\ host' = None
    /\ metrics' = None
    /\ power' = None
    /\ power_w' = None
    /\ emissions' = None
    /\ trace' = <<>>
    /\ UNCHANGED <<metrics_history, unusual, appended, history_at_start>>

Next ==
    \/ InitSessionState
    \/ GetSystemMetrics
    \/ RenderSystemMetrics
    \/ CalculatePower
    \/ CalculateEmissions
    \/ UpdateHistory
    \/ RenderPowerCard
    \/ RenderEmissionsCard
    \/ AnomalyDetection
    \/ PowerTrend
    \/ EndRun

Spec == Init /\ [][Next]_vars

RunSteps ==
    \/ RenderSystemMetrics
    \/ CalculatePower
    \/ CalculateEmissions
    \/ UpdateHistory
    \/ RenderPowerCard
    \/ RenderEmissionsCard
    \/ AnomalyDetection
    \/ PowerTrend
    \/ EndRun

NextLong ==
    \/ LongInitSessionState
    \/ LongGetSystemMetrics
    \/ RunSteps

SpecLong == Init /\ [][NextLong]_vars

(***************************************************************************)
(* calculate_power on its own: every snapshot of a grid of readings, and   *)
(* None.                                                                   *)
(***************************************************************************)
CpuUsages == {0, 7, 123, 500, 1000}
CpuFreqs == {None, Some(0), Some(800), Some(2000), Some(3400)}
MemoryUsed == {0, 15, 410, 1640}
DiskPercents == {0, 500, 501, 900}

PowerInputs ==
    {None} \cup
    { Some([timestamp |-> 0, cpu_usage |-> u, cpu_freq |-> f, memory_used |-> g,
            memory_percent |-> 0, disk_percent |-> d]) :
        u \in CpuUsages, f \in CpuFreqs, g \in MemoryUsed, d \in DiskPercents }

Quiet ==
    /\ metrics_history = None
    /\ host = None
    /\ trace = <<>>
    /\ clock = 0
    /\ unusual = 0
    /\ appended = <<>>
    /\ history_at_start = None
    /\ prev_failed = FALSE

InitPower ==
    /\ Quiet
    /\ pc = "call_power"
    /\ metrics \in PowerInputs
    /\ power = None
    /\ power_w = None
    /\ emissions = None

CallCalculatePower ==
    /\ pc = "call_power"
    /\ power' = calculate_power(metrics)
    /\ pc' = "power_returned"
    /\ UNCHANGED <<metrics_history, host, metrics, power_w, emissions, trace, clock,
                   unusual, appended, history_at_start, prev_failed>>

SpecPower == InitPower /\ [][CallCalculatePower]_vars

(***************************************************************************)
(* calculate_emissions on its own: None and every facility power from 0 to *)
(* MaxPowerTenths tenths of a watt.                                        *)
(***************************************************************************)
EmissionInputs == {None} \cup { Some(t) : t \in 0..MaxPowerTenths }

InitEmissions ==
    /\ Quiet
    /\ pc = "call_emissions"
    /\ metrics = None
    /\ power = None
    /\ power_w \in EmissionInputs
    /\ emissions = None

CallCalculateEmissions ==
    /\ pc = "call_emissions"
    /\ emissions' = calculate_emissions(power_w)
    /\ pc' = "emissions_returned"
    /\ UNCHANGED <<metrics_history, host, metrics, power, power_w, trace, clock,
                   unusual, appended, history_at_start, prev_failed>>

SpecEmissions == InitEmissions /\ [][CallCalculateEmissions]_vars

(***************************************************************************)
(* Properties.                                                             *)
(***************************************************************************)
Rows == metrics_history[1]

InTrace(e) == \E i \in 1..Len(trace) : trace[i] = e

Abs(x) == IF x < 0 THEN 0 - x ELSE x

Min(a, b) == IF a < b THEN a ELSE b

\* C1: the history never holds more than 60 rows, and its rows are exactly the
\* most recently appended ones (all of them, or the last 60), in the order of
\* their insertion; once 61 rows have been appended the first one is gone.
C1_HistoryKeepsLast60 ==
    metrics_history # None =>
        LET n == Len(appended)
            k == Len(Rows)
        IN  /\ k <= HISTORY_ROWS
            /\ k = Min(n, HISTORY_ROWS)
            /\ \A i \in 1..k : Rows[i].timestamp = appended[n - k + i]
            /\ n > HISTORY_ROWS => \A i \in 1..k : Rows[i].timestamp # appended[1]

C1_Witness ==
    /\ pc = "power_card"
    /\ Len(appended) = HISTORY_ROWS + 1
    /\ Len(Rows) = HISTORY_ROWS

\* C2 (as amended): on a run that has a power estimate and whose history holds more
\* than 10 rows after the append, the alert is shown iff the current facility power
\* is strictly greater than 1.3 times the mean total_power of the retained rows.
C2_AlertIffAboveMean ==
    (pc = "trend" /\ Len(Rows) > ANOMALY_MIN_ROWS) =>
        (InTrace("anomaly_alert") <=>
            power[1].total_facility * 10 * Len(Rows) > 13 * sum_total_power(Rows))

C2_Witness ==
    /\ pc = "trend"
    /\ Len(Rows) > ANOMALY_MIN_ROWS
    /\ InTrace("anomaly_alert")

\* C2 as claimed: the same with "at least 10 rows".
C2_Original ==
    (pc = "trend" /\ Len(Rows) >= ANOMALY_MIN_ROWS) =>
        (InTrace("anomaly_alert") <=>
            power[1].total_facility * 10 * Len(Rows) > 13 * sum_total_power(Rows))

\* C3: the first run of a session starts from an empty history, and a run whose
\* history holds fewer than 10 rows shows no alert whatever the readings, yet is
\* carried through like any other: estimate, append, cards and the anomaly test,
\* without an error report.
C3_NoAlertBelowMinimum ==
    /\ (clock = 0 /\ pc = "collect") => metrics_history = Some(<<>>)
    /\ (metrics_history # None /\ Len(Rows) < ANOMALY_MIN_ROWS) =>
          /\ ~InTrace("anomaly_alert")
          /\ (pc = "notes" /\ metrics # None) =>
                /\ InTrace("append")
                /\ InTrace("power_card")
                /\ InTrace("anomaly_check")
                /\ ~InTrace("metrics_error")

C3_Witness ==
    /\ pc = "notes"
    /\ power # None
    /\ Len(Rows) = ANOMALY_MIN_ROWS - 1
    /\ power[1].total_facility * 10 * Len(Rows) > 13 * sum_total_power(Rows)

\* C4: a run whose metric collection raises gets no snapshot; the failure is
\* reported, no power or emissions estimate is computed, the history stays as the
\* run found it, no alert is shown, and the history is still that one when the
\* next run starts.
C4_FailedCollectionSkipsRun ==
    /\ (host # None /\ CollectionRaises(host[1])) => metrics = None
    /\ (pc \notin {"start", "collect"} /\ metrics = None) =>
          /\ InTrace("metrics_error")
          /\ power = None
          /\ emissions = None
          /\ metrics_history = history_at_start
          /\ ~InTrace("anomaly_alert")
          /\ ~InTrace("append")
    /\ (pc = "start" /\ prev_failed) => metrics_history = history_at_start

C4_Witness ==
    /\ prev_failed
    /\ pc = "power_card"
    /\ Len(history_at_start[1]) > 0
    /\ Len(Rows) = Len(history_at_start[1]) + 1

\* C5 as claimed: when the host gives no CPU frequency (and nothing else fails), the
\* run still gets a snapshot, its cpu_freq absent, and the power estimate is made
\* with cpu_watts = (cpu_usage/100) * 2.5 * 15.
C5_Original ==
    (/\ pc \notin {"start", "collect"}
     /\ ~host[1].os_error
     /\ (host[1].freq_api = "absent" \/ host[1].cpu_freq = None)) =>
        /\ metrics # None
        /\ metrics[1].cpu_freq = None
        /\ pc \notin {"col1", "col2"} =>
              /\ power # None
              /\ power[1].cpu = Round1(host[1].cpu_usage * 2500 * 15)

\* C6 as claimed: calculate_emissions returns an estimate for every power >= 0.
C6_Original ==
    (pc = "emissions_returned" /\ power_w # None) => emissions # None

\* C7 (as amended): every estimate calculate_emissions returns holds the three
\* scalings of hourly_g = (facility_watts/1000) * 400, each rounded to its own
\* precision: hourly to 0.1 g, daily = hourly_g*24/1000 to 0.01 kg,
\* annual = hourly_g*8760/1000000 to 0.001 t.
C7_ScalingsRounded ==
    (pc = "emissions_returned" /\ emissions # None) =>
        LET w == power_w[1]
            e == emissions[1]
        IN  /\ 2 * Abs(e.hourly * 1000 - w * 400) <= 1000
            /\ 2 * Abs(e.daily * 100000 - w * 400 * 24) <= 100000
            /\ 2 * Abs(e.annual * 100000 - w * 4 * 8760) <= 100000

C7_Witness ==
    /\ pc = "emissions_returned"
    /\ emissions # None
    /\ emissions[1].daily * 100000 # power_w[1] * 400 * 24
    /\ emissions[1].annual > 0

\* C7 as claimed: the returned daily and annual figures are the exact scalings.
C7_Original ==
    (pc = "emissions_returned" /\ emissions # None) =>
        /\ emissions[1].daily * 100000 = power_w[1] * 400 * 24
        /\ emissions[1].annual * 100000 = power_w[1] * 4 * 8760

\* C8: a snapshot with no CPU load, no memory in use and a disk at 50% or less
\* gives cpu 0, memory 0 and an IT total of the idle disk's 2 W, whatever the
\* CPU frequency.
C8_IdleSnapshot ==
    (/\ pc = "power_returned"
     /\ metrics # None
     /\ metrics[1].cpu_usage = 0
     /\ metrics[1].memory_used = 0
     /\ metrics[1].disk_percent <= 500) =>
        /\ power # None
        /\ power[1].cpu = 0
        /\ power[1].memory = 0
        /\ power[1].total_it = 20

C8_Witness ==
    /\ pc = "power_returned"
    /\ metrics # None
    /\ metrics[1].cpu_usage = 0
    /\ metrics[1].memory_used = 0
    /\ metrics[1].disk_percent = 500
    /\ metrics[1].cpu_freq = None
    /\ power # None

RenderedFromPower == {"power_card", "emissions_card", "anomaly_check", "anomaly_alert", "trend"}

StepOrder ==
    <<"collect", "metrics_error", "gauges", "power", "emissions", "append",
      "power_card", "emissions_card", "anomaly_check", "anomaly_alert", "trend">>

Rank(e) == CHOOSE i \in 1..Len(StepOrder) : StepOrder[i] = e

\* C9 (as amended): the steps of a run happen in one fixed order, each at most
\* once: collection, the gauges of the snapshot, power, emissions, the append, and
\* only then what is shown of the power (cards, anomaly test, trend); the anomaly
\* test reads a history whose last row is the row of this run.
C9_StepsInOrder ==
    /\ \A i, j \in 1..Len(trace) : i < j => Rank(trace[i]) < Rank(trace[j])
    /\ \A e \in RenderedFromPower :
          InTrace(e) => (InTrace("power") /\ InTrace("emissions") /\ InTrace("append"))
    /\ InTrace("gauges") => InTrace("collect")
    /\ InTrace("anomaly_check") =>
          (Len(Rows) > 0 /\ Rows[Len(Rows)].timestamp = clock)

C9_Witness ==
    /\ pc = "notes"
    /\ trace = <<"collect", "gauges", "power", "emissions", "append", "power_card",
                 "emissions_card", "anomaly_check", "anomaly_alert", "trend">>

\* C9 as claimed: nothing of the run is shown before the append.
C9_Original ==
    \A i \in 1..Len(trace) :
        trace[i] \in (RenderedFromPower \cup {"gauges"}) =>
            \E j \in 1..(i - 1) : trace[j] = "append"

\* C10 (as amended): in every estimate calculate_power returns, cpu, memory and
\* disk are >= 0, and total_it, rounded from the unrounded sum, is within 0.1 W
\* of the sum of the three returned components.
C10_TotalNearSum ==
    (pc = "power_returned" /\ power # None) =>
        LET p == power[1]
        IN  /\ p.cpu >= 0
            /\ p.memory >= 0
            /\ p.disk >= 0
            /\ Abs(p.total_it - (p.cpu + p.memory + p.disk)) <= 1

C10_Witness ==
    /\ pc = "power_returned"
    /\ power # None
    /\ power[1].total_it = power[1].cpu + power[1].memory + power[1].disk + 1

\* C10 as claimed: total_it is the sum of the three returned components.
C10_Original ==
    (pc = "power_returned" /\ power # None) =>
        power[1].total_it = power[1].cpu + power[1].memory + power[1].disk

====
